---- MODULE Spec2Model ----
(***************************************************************************)
(* Model of the Nexus Legal Classifier (src/app): the /classify endpoint,  *)
(* Classifier.classify, the remote Groq call and the keyword heuristic.    *)
(*                                                                         *)
(* A text (a Python str) is a sequence of one-character strings, so that   *)
(* str.lower(), str.strip() and the `in` substring test are computed the   *)
(* way the code computes them.  A CategoryEnum member is its str value.    *)
(* Labels and trigger terms are strings, spelled into characters by Spell. *)
(* A reasoning string is a sequence of string pieces, the pieces of the    *)
(* f-string that built it.                                                 *)
(***************************************************************************)
EXTENDS Integers, Sequences, FiniteSets, TLC

----------------------------------------------------------------------------
(* schemas.py: CategoryEnum, in declaration order.                         *)

PROCESSUAL == "Processual"
FINANCEIRO == "Financeiro"
SUPORTE == "Suporte Técnico"
COMERCIAL == "Comercial"
ADMINISTRATIVO == "Administrativo"
OUTROS == "Outros"

CategoryEnum == <<PROCESSUAL, FINANCEIRO, SUPORTE, COMERCIAL, ADMINISTRATIVO, OUTROS>>

----------------------------------------------------------------------------
(* resources.py: KEYWORDS, a dict; iteration follows insertion order.      *)

FINANCEIRO_TERMS ==
    <<
       "boleto", "pagar", "pagamento", "valor", "honorários",
       "custas", "fatura", "dinheiro", "reembolso", "nota fiscal",
       "cobrança", "débito", "crédito", "transferência", "depósito",
       "juros", "multa", "taxa", "investimento", "orçamento",
       "custo", "despesa", "receita", "lucro", "prejuízo"
    >>

PROCESSUAL_TERMS ==
    <<
       "prazo", "juiz", "audiência", "processo", "liminar",
       "sentença", "recurso", "intimação", "vara", "autos",
       "dje", "apelação", "agravado", "agravante", "juizado",
       "tribunal", "petição", "defesa", "réu", "autor",
       "sentenciado", "moção", "mandado", "citação", "contestação",
       "execução"
    >>

SUPORTE_TERMS ==
    <<
       "senha", "login", "acesso", "sistema", "erro",
       "bug", "entrar", "site", "nexus", "indisponível",
       "offline", "problema técnico", "não funciona", "travado", "lento",
       "recuperar senha", "resetar", "autenticação", "permissão", "crash",
       "falha", "conexão", "servidor down", "manutenção"
    >>

COMERCIAL_TERMS ==
    <<
       "proposta", "orçamento", "contratar", "nova causa", "parceria",
       "apresentação", "reunião comercial", "cliente novo", "negócio", "venda",
       "contrato", "acordo", "oportunidade", "consultoria", "projeto",
       "licitação", "fornecedor", "cliente", "prospecção", "oferta",
       "desconto", "cancelamento", "contratação"
    >>

ADMINISTRATIVO_TERMS ==
    <<
       "agendar", "sala", "reunião", "cópia", "digitalizar",
       "documento", "certidão", "cartório", "motoboy", "correio",
       "agendamento", "recurso", "material", "logística", "secretária",
       "arquivos", "impressão", "scaneamento", "protocolo", "pasta",
       "solicitação", "administrativo", "gerencial", "coordenação", "organização"
    >>

KEYWORDS ==
    << [category |-> FINANCEIRO,     terms |-> FINANCEIRO_TERMS],
       [category |-> PROCESSUAL,     terms |-> PROCESSUAL_TERMS],
       [category |-> SUPORTE,        terms |-> SUPORTE_TERMS],
       [category |-> COMERCIAL,      terms |-> COMERCIAL_TERMS],
       [category |-> ADMINISTRATIVO, terms |-> ADMINISTRATIVO_TERMS] >>

(* KEYWORDS.keys(), in iteration order *)
KeywordKeys == [i \in 1..Len(KEYWORDS) |-> KEYWORDS[i].category]

(* KEYWORDS[category] *)
KeywordTerms(category) ==
    KEYWORDS[CHOOSE i \in 1..Len(KEYWORDS) : KEYWORDS[i].category = category].terms

(* resources.py: SYSTEM_PROMPT_TEMPLATE, the text around its one           *)
(* substitution point {categories}.                                        *)
SYSTEM_PROMPT_TEMPLATE ==
    << "Você é um classificador jurídico especializado do sistema Nexus. [...] CATEGORIAS DISPONÍVEIS: ",
       "{categories}",
       " Agora, classifique a mensagem do usuário:" >>

----------------------------------------------------------------------------
(* Python str operations.                                                  *)

(* The upper-case letters of the model's alphabet and their lower case.    *)
CaseMap ==
    ("A" :> "a") @@ ("B" :> "b") @@ ("C" :> "c") @@ ("D" :> "d") @@ ("E" :> "e") @@ ("F" :> "f") @@
    ("G" :> "g") @@ ("H" :> "h") @@ ("I" :> "i") @@ ("J" :> "j") @@ ("K" :> "k") @@ ("L" :> "l") @@
    ("M" :> "m") @@ ("N" :> "n") @@ ("O" :> "o") @@ ("P" :> "p") @@ ("Q" :> "q") @@ ("R" :> "r") @@
    ("S" :> "s") @@ ("T" :> "t") @@ ("U" :> "u") @@ ("V" :> "v") @@ ("W" :> "w") @@ ("X" :> "x") @@
    ("Y" :> "y") @@ ("Z" :> "z") @@ ("À" :> "à") @@ ("Á" :> "á") @@ ("Â" :> "â") @@ ("Ã" :> "ã") @@
    ("Ç" :> "ç") @@ ("É" :> "é") @@ ("Ê" :> "ê") @@ ("Í" :> "í") @@ ("Ó" :> "ó") @@ ("Ô" :> "ô") @@
    ("Õ" :> "õ") @@ ("Ú" :> "ú")

LowerChar(c) == IF c \in DOMAIN CaseMap THEN CaseMap[c] ELSE c

(* str.lower() *)
Lower(s) == [i \in 1..Len(s) |-> LowerChar(s[i])]

Whitespace == {" ", "\t", "\n"}

(* str.strip() *)
Strip(s) ==
    LET keep == {i \in 1..Len(s) : s[i] \notin Whitespace}
    IN  IF keep = {} THEN <<>>
        ELSE SubSeq(s, CHOOSE i \in keep : \A j \in keep : i <= j,
                       CHOOSE i \in keep : \A j \in keep : j <= i)

(* The characters of the strings of the model: a category label, a trigger  *)
(* term or a category value of the remote model is held as a string and    *)
(* spelled out where the code looks inside it.                             *)
Spell ==
    ("Processual" :> <<"P","r","o","c","e","s","s","u","a","l">>) @@
    ("Financeiro" :> <<"F","i","n","a","n","c","e","i","r","o">>) @@
    ("Suporte Técnico" :> <<"S","u","p","o","r","t","e"," ","T","é","c","n","i","c","o">>) @@
    ("Comercial" :> <<"C","o","m","e","r","c","i","a","l">>) @@
    ("Administrativo" :> <<"A","d","m","i","n","i","s","t","r","a","t","i","v","o">>) @@
    ("Outros" :> <<"O","u","t","r","o","s">>) @@
    ("boleto" :> <<"b","o","l","e","t","o">>) @@
    ("pagar" :> <<"p","a","g","a","r">>) @@
    ("pagamento" :> <<"p","a","g","a","m","e","n","t","o">>) @@
    ("valor" :> <<"v","a","l","o","r">>) @@
    ("honorários" :> <<"h","o","n","o","r","á","r","i","o","s">>) @@
    ("custas" :> <<"c","u","s","t","a","s">>) @@
    ("fatura" :> <<"f","a","t","u","r","a">>) @@
    ("dinheiro" :> <<"d","i","n","h","e","i","r","o">>) @@
    ("reembolso" :> <<"r","e","e","m","b","o","l","s","o">>) @@
    ("nota fiscal" :> <<"n","o","t","a"," ","f","i","s","c","a","l">>) @@
    ("cobrança" :> <<"c","o","b","r","a","n","ç","a">>) @@
    ("débito" :> <<"d","é","b","i","t","o">>) @@
    ("crédito" :> <<"c","r","é","d","i","t","o">>) @@
    ("transferência" :> <<"t","r","a","n","s","f","e","r","ê","n","c","i","a">>) @@
    ("depósito" :> <<"d","e","p","ó","s","i","t","o">>) @@
    ("juros" :> <<"j","u","r","o","s">>) @@
    ("multa" :> <<"m","u","l","t","a">>) @@
    ("taxa" :> <<"t","a","x","a">>) @@
    ("investimento" :> <<"i","n","v","e","s","t","i","m","e","n","t","o">>) @@
    ("orçamento" :> <<"o","r","ç","a","m","e","n","t","o">>) @@
    ("custo" :> <<"c","u","s","t","o">>) @@
    ("despesa" :> <<"d","e","s","p","e","s","a">>) @@
    ("receita" :> <<"r","e","c","e","i","t","a">>) @@
    ("lucro" :> <<"l","u","c","r","o">>) @@
    ("prejuízo" :> <<"p","r","e","j","u","í","z","o">>) @@
    ("prazo" :> <<"p","r","a","z","o">>) @@
    ("juiz" :> <<"j","u","i","z">>) @@
    ("audiência" :> <<"a","u","d","i","ê","n","c","i","a">>) @@
    ("processo" :> <<"p","r","o","c","e","s","s","o">>) @@
    ("liminar" :> <<"l","i","m","i","n","a","r">>) @@
    ("sentença" :> <<"s","e","n","t","e","n","ç","a">>) @@
    ("recurso" :> <<"r","e","c","u","r","s","o">>) @@
    ("intimação" :> <<"i","n","t","i","m","a","ç","ã","o">>) @@
    ("vara" :> <<"v","a","r","a">>) @@
    ("autos" :> <<"a","u","t","o","s">>) @@
    ("dje" :> <<"d","j","e">>) @@
    ("apelação" :> <<"a","p","e","l","a","ç","ã","o">>) @@
    ("agravado" :> <<"a","g","r","a","v","a","d","o">>) @@
    ("agravante" :> <<"a","g","r","a","v","a","n","t","e">>) @@
    ("juizado" :> <<"j","u","i","z","a","d","o">>) @@
    ("tribunal" :> <<"t","r","i","b","u","n","a","l">>) @@
    ("petição" :> <<"p","e","t","i","ç","ã","o">>) @@
    ("defesa" :> <<"d","e","f","e","s","a">>) @@
    ("réu" :> <<"r","é","u">>) @@
    ("autor" :> <<"a","u","t","o","r">>) @@
    ("sentenciado" :> <<"s","e","n","t","e","n","c","i","a","d","o">>) @@
    ("moção" :> <<"m","o","ç","ã","o">>) @@
    ("mandado" :> <<"m","a","n","d","a","d","o">>) @@
    ("citação" :> <<"c","i","t","a","ç","ã","o">>) @@
    ("contestação" :> <<"c","o","n","t","e","s","t","a","ç","ã","o">>) @@
    ("execução" :> <<"e","x","e","c","u","ç","ã","o">>) @@
    ("senha" :> <<"s","e","n","h","a">>) @@
    ("login" :> <<"l","o","g","i","n">>) @@
    ("acesso" :> <<"a","c","e","s","s","o">>) @@
    ("sistema" :> <<"s","i","s","t","e","m","a">>) @@
    ("erro" :> <<"e","r","r","o">>) @@
    ("bug" :> <<"b","u","g">>) @@
    ("entrar" :> <<"e","n","t","r","a","r">>) @@
    ("site" :> <<"s","i","t","e">>) @@
    ("nexus" :> <<"n","e","x","u","s">>) @@
    ("indisponível" :> <<"i","n","d","i","s","p","o","n","í","v","e","l">>) @@
    ("offline" :> <<"o","f","f","l","i","n","e">>) @@
    ("problema técnico" :> <<"p","r","o","b","l","e","m","a"," ","t","é","c","n","i","c","o">>) @@
    ("não funciona" :> <<"n","ã","o"," ","f","u","n","c","i","o","n","a">>) @@
    ("travado" :> <<"t","r","a","v","a","d","o">>) @@
    ("lento" :> <<"l","e","n","t","o">>) @@
    ("recuperar senha" :> <<"r","e","c","u","p","e","r","a","r"," ","s","e","n","h","a">>) @@
    ("resetar" :> <<"r","e","s","e","t","a","r">>) @@
    ("autenticação" :> <<"a","u","t","e","n","t","i","c","a","ç","ã","o">>) @@
    ("permissão" :> <<"p","e","r","m","i","s","s","ã","o">>) @@
    ("crash" :> <<"c","r","a","s","h">>) @@
    ("falha" :> <<"f","a","l","h","a">>) @@
    ("conexão" :> <<"c","o","n","e","x","ã","o">>) @@
    ("servidor down" :> <<"s","e","r","v","i","d","o","r"," ","d","o","w","n">>) @@
    ("manutenção" :> <<"m","a","n","u","t","e","n","ç","ã","o">>) @@
    ("proposta" :> <<"p","r","o","p","o","s","t","a">>) @@
    ("contratar" :> <<"c","o","n","t","r","a","t","a","r">>) @@
    ("nova causa" :> <<"n","o","v","a"," ","c","a","u","s","a">>) @@
    ("parceria" :> <<"p","a","r","c","e","r","i","a">>) @@
    ("apresentação" :> <<"a","p","r","e","s","e","n","t","a","ç","ã","o">>) @@
    ("reunião comercial" :> <<"r","e","u","n","i","ã","o"," ","c","o","m","e","r","c","i","a","l">>) @@
    ("cliente novo" :> <<"c","l","i","e","n","t","e"," ","n","o","v","o">>) @@
    ("negócio" :> <<"n","e","g","ó","c","i","o">>) @@
    ("venda" :> <<"v","e","n","d","a">>) @@
    ("contrato" :> <<"c","o","n","t","r","a","t","o">>) @@
    ("acordo" :> <<"a","c","o","r","d","o">>) @@
    ("oportunidade" :> <<"o","p","o","r","t","u","n","i","d","a","d","e">>) @@
    ("consultoria" :> <<"c","o","n","s","u","l","t","o","r","i","a">>) @@
    ("projeto" :> <<"p","r","o","j","e","t","o">>) @@
    ("licitação" :> <<"l","i","c","i","t","a","ç","ã","o">>) @@
    ("fornecedor" :> <<"f","o","r","n","e","c","e","d","o","r">>) @@
    ("cliente" :> <<"c","l","i","e","n","t","e">>) @@
    ("prospecção" :> <<"p","r","o","s","p","e","c","ç","ã","o">>) @@
    ("oferta" :> <<"o","f","e","r","t","a">>) @@
    ("desconto" :> <<"d","e","s","c","o","n","t","o">>) @@
    ("cancelamento" :> <<"c","a","n","c","e","l","a","m","e","n","t","o">>) @@
    ("contratação" :> <<"c","o","n","t","r","a","t","a","ç","ã","o">>) @@
    ("agendar" :> <<"a","g","e","n","d","a","r">>) @@
    ("sala" :> <<"s","a","l","a">>) @@
    ("reunião" :> <<"r","e","u","n","i","ã","o">>) @@
    ("cópia" :> <<"c","ó","p","i","a">>) @@
    ("digitalizar" :> <<"d","i","g","i","t","a","l","i","z","a","r">>) @@
    ("documento" :> <<"d","o","c","u","m","e","n","t","o">>) @@
    ("certidão" :> <<"c","e","r","t","i","d","ã","o">>) @@
    ("cartório" :> <<"c","a","r","t","ó","r","i","o">>) @@
    ("motoboy" :> <<"m","o","t","o","b","o","y">>) @@
    ("correio" :> <<"c","o","r","r","e","i","o">>) @@
    ("agendamento" :> <<"a","g","e","n","d","a","m","e","n","t","o">>) @@
    ("material" :> <<"m","a","t","e","r","i","a","l">>) @@
    ("logística" :> <<"l","o","g","í","s","t","i","c","a">>) @@
    ("secretária" :> <<"s","e","c","r","e","t","á","r","i","a">>) @@
    ("arquivos" :> <<"a","r","q","u","i","v","o","s">>) @@
    ("impressão" :> <<"i","m","p","r","e","s","s","ã","o">>) @@
    ("scaneamento" :> <<"s","c","a","n","e","a","m","e","n","t","o">>) @@
    ("protocolo" :> <<"p","r","o","t","o","c","o","l","o">>) @@
    ("pasta" :> <<"p","a","s","t","a">>) @@
    ("solicitação" :> <<"s","o","l","i","c","i","t","a","ç","ã","o">>) @@
    ("administrativo" :> <<"a","d","m","i","n","i","s","t","r","a","t","i","v","o">>) @@
    ("gerencial" :> <<"g","e","r","e","n","c","i","a","l">>) @@
    ("coordenação" :> <<"c","o","o","r","d","e","n","a","ç","ã","o">>) @@
    ("organização" :> <<"o","r","g","a","n","i","z","a","ç","ã","o">>) @@
    ("financeiro" :> <<"f","i","n","a","n","c","e","i","r","o">>) @@
    ("FINANCEIRO" :> <<"F","I","N","A","N","C","E","I","R","O">>) @@
    ("SUPORTE TÉCNICO" :> <<"S","U","P","O","R","T","E"," ","T","É","C","N","I","C","O">>) @@
    ("processual" :> <<"p","r","o","c","e","s","s","u","a","l">>) @@
    ("Unknown" :> <<"U","n","k","n","o","w","n">>) @@
    ("Financeiro " :> <<"F","i","n","a","n","c","e","i","r","o"," ">>) @@
    ("" :> <<>>)

(* term in s *)
Contains(s, term) ==
    \E i \in 0..(Len(s) - Len(term)) :
        \A k \in 1..Len(term) : s[i + k] = term[k]

----------------------------------------------------------------------------
(* Bounds of the model.                                                    *)

(* Concurrent requests of SpecConc. *)
NumRequests == 2
(* Fragments concatenated into a text of SpecHeuristic. *)
MaxFragments == 2

(* schemas.py: ClassificationRequest.text, Field(min_length, max_length). *)
MIN_LENGTH == 3
MAX_LENGTH == 2000

----------------------------------------------------------------------------
(* State.                                                                  *)

VARIABLES
    settings,       \* config.py: the module-level Settings instance
    keywords,       \* classifier.py: Classifier.keywords, the shared KEYWORDS dict:
                    \* its keys in iteration order (each key's value is the
                    \* list literal of resources.py, which no code path touches)
    promptTemplate, \* resources.py: SYSTEM_PROMPT_TEMPLATE as seen by the requests
    pc,             \* per request: "idle", "accepted", "awaiting", "done"
    text,           \* per request: ClassificationRequest.text
    remote,         \* per request: what the awaited client.post produced
    llm,            \* per request: how _call_groq_llm ended (returned / raised)
    remoteCalls,    \* per request: number of client.post calls made
    heuristicRuns,  \* per request: number of _heuristic_classify calls made
    pydanticCoerces,\* whether the installed pydantic coerces a number to str
    sent,           \* per request: the request posted to the remote service
    http            \* per request: the HTTP response of POST /classify

vars == <<settings, keywords, promptTemplate, pydanticCoerces, pc, text, remote,
          sent, llm, remoteCalls, heuristicRuns, http>>

(* config.py: class Settings.  GROQ_API_KEY comes from the environment.    *)
SettingsOf(key) ==
    [ GROQ_API_KEY |-> key,
      GROQ_URL     |-> "https://api.groq.com/openai/v1/chat/completions",
      GROQ_MODEL   |-> "llama-3.3-70b-versatile" ]

ApiKeys == {"", "gsk_0123456789abcdefghij"}

----------------------------------------------------------------------------
(* classifier.py: Classifier._heuristic_classify                           *)

(* Variant: the text is matched as typed. *)
TextLowerIdentity(t) == t

(* text_lower = text.lower() *)
TextLower(t) == Lower(t)

(* matches = sum(1 for term in terms if term in text_lower) *)
Matches(terms, text_lower) ==
    Cardinality({j \in 1..Len(terms) : Contains(text_lower, Spell[terms[j]])})

(* Variant: a tie replaces the best category. *)
ImprovesOrTies(matches, max_matches) == matches >= max_matches

(* if matches > max_matches *)
Improves(matches, max_matches) == matches > max_matches

(* for category, terms in self.keywords.items(): ... from entry i on *)
RECURSIVE ScanKeywords(_, _, _, _, _)
ScanKeywords(kw, text_lower, i, best_category, max_matches) ==
    IF i > Len(kw)
    THEN [best_category |-> best_category, max_matches |-> max_matches]
    ELSE LET matches == Matches(KeywordTerms(kw[i]), text_lower)
         IN  IF Improves(matches, max_matches)
             THEN ScanKeywords(kw, text_lower, i + 1, kw[i], matches)
             ELSE ScanKeywords(kw, text_lower, i + 1, best_category, max_matches)

(* final_reason = f"{reason} Identificados {max_matches} termos ..." *)
FinalReason(reason, max_matches) ==
    IF max_matches > 0
    THEN reason \o <<" Identificados ", ToString(max_matches),
                     " termos chave utilizando heurísticas.">>
    ELSE reason \o <<" Nenhum termo chave relevante identificado utilizando heurísticas.">>

(* Variant: the heuristic result carries the remote model's name. *)
HeuristicClassifyMislabelled(kw, t, reason) ==
    LET scan == ScanKeywords(kw, TextLower(t), 1, OUTROS, 0)
    IN  [ category  |-> scan.best_category,
          reasoning |-> FinalReason(reason, scan.max_matches),
          model     |-> "llama-3.3-70b-versatile",
          strategy  |-> "Fallback-Heuristic" ]

HeuristicClassify(kw, t, reason) ==
    LET scan == ScanKeywords(kw, TextLower(t), 1, OUTROS, 0)
    IN  [ category  |-> scan.best_category,
          reasoning |-> FinalReason(reason, scan.max_matches),
          model     |-> "Keywords-Heuristic",
          strategy  |-> "Fallback-Heuristic" ]

----------------------------------------------------------------------------
(* The remote service, as seen at `await client.post(...)`: the call       *)
(* raises (timeout, transport fault) or yields a response with a status    *)
(* code and a body.                                                        *)

StatusCodes == {200, 201, 301, 400, 401, 429, 500, 503}

(* Values the remote model may put under "category". *)
CategoryStrings ==
    {
      "Financeiro",
      "financeiro",
      "FINANCEIRO",
      "Suporte Técnico",
      "SUPORTE TÉCNICO",
      "processual",
      "Outros",
      "Unknown",
      "Financeiro ",
      ""
    }

JsonCategory ==
    {[kind |-> "missing"], [kind |-> "null"], [kind |-> "number"]}
    \cup {[kind |-> "string", value |-> v] : v \in CategoryStrings}

JsonReasoning ==
    { [kind |-> "missing"], [kind |-> "null"], [kind |-> "number", value |-> 7],
      [kind |-> "string", value |-> <<"Questão sobre prazo e recurso processual">>] }

(* data['choices'][0]['message']['content'] *)
Contents ==
    { [type |-> "null"],        \* content is JSON null, not a str
      [type |-> "text"],        \* a str that is not JSON
      [type |-> "array"] }      \* a str holding JSON that is no object
    \cup {[type |-> "object", category |-> c, reasoning |-> g] :
             c \in JsonCategory, g \in JsonReasoning}

Bodies ==
    { [json |-> FALSE, shape |-> "html"],         \* response.json() fails
      [json |-> TRUE, shape |-> "no choices"],     \* {"error": ...}
      [json |-> TRUE, shape |-> "empty choices"],  \* {"choices": []}
      [json |-> TRUE, shape |-> "no content"] }    \* {"choices": [{"message": {}}]}
    \cup {[json |-> TRUE, shape |-> "completion", content |-> c] : c \in Contents}

IsSuccess(status_code) == 200 <= status_code /\ status_code <= 299

SampleCompletion ==
    [json |-> TRUE, shape |-> "completion",
     content |-> [type |-> "object",
                  category  |-> [kind |-> "string", value |-> FINANCEIRO],
                  reasoning |-> [kind |-> "string",
                                 value |-> <<"Questão sobre prazo e recurso processual">>]]]

Outcomes ==
    { [kind |-> "raise", exc |-> "ReadTimeout"],
      [kind |-> "raise", exc |-> "ConnectError"] }
    \cup {[kind |-> "response", status_code |-> c, body |-> b] :
             c \in {c \in StatusCodes : IsSuccess(c)}, b \in Bodies}
    \cup {[kind |-> "response", status_code |-> c, body |-> b] :
             c \in {c \in StatusCodes : ~IsSuccess(c)},
             b \in {[json |-> FALSE, shape |-> "html"], SampleCompletion}}

----------------------------------------------------------------------------
(* Python exceptions: the classes that occur and their base classes.       *)

ExceptionBases ==
    [ HTTPStatusError |-> {"HTTPStatusError", "HTTPError", "Exception", "BaseException"},
      ReadTimeout     |-> {"ReadTimeout", "TimeoutException", "TransportError",
                           "HTTPError", "Exception", "BaseException"},
      ConnectError    |-> {"ConnectError", "TransportError", "HTTPError",
                           "Exception", "BaseException"},
      JSONDecodeError |-> {"JSONDecodeError", "ValueError", "Exception", "BaseException"},
      KeyError        |-> {"KeyError", "LookupError", "Exception", "BaseException"},
      IndexError      |-> {"IndexError", "LookupError", "Exception", "BaseException"},
      TypeError       |-> {"TypeError", "Exception", "BaseException"},
      AttributeError  |-> {"AttributeError", "Exception", "BaseException"},
      ValidationError |-> {"ValidationError", "ValueError", "Exception", "BaseException"} ]

(* isinstance(e, cls) *)
IsInstance(e, cls) == cls \in ExceptionBases[e.type]

Raised(type) == [raised |-> TRUE, exc |-> [type |-> type]]
RaisedStatus(code) ==
    [raised |-> TRUE, exc |-> [type |-> "HTTPStatusError", status_code |-> code]]
Returned(value) == [raised |-> FALSE, value |-> value]

----------------------------------------------------------------------------
(* classifier.py: Classifier._call_groq_llm, from the point where          *)
(* `await client.post(...)` completes.                                     *)

(* response.raise_for_status() *)
RaiseForStatus(status_code) == ~IsSuccess(status_code)

(* Variant: the labels are compared as written. *)
SameCategoryExact(c, cat_str) == c = cat_str

(* c.value.lower() == cat_str.lower() *)
SameCategory(c, cat_str) == Lower(Spell[c]) = Lower(Spell[cat_str])

(* next((c for c in CategoryEnum if ...), CategoryEnum.OUTROS) *)
CategoryOf(cat_str) ==
    LET hits == {i \in 1..Len(CategoryEnum) : SameCategory(CategoryEnum[i], cat_str)}
    IN  IF hits = {} THEN OUTROS
        ELSE CategoryEnum[CHOOSE i \in hits : \A j \in hits : i <= j]

(* ClassificationResponse(category=..., reasoning=content.get("reasoning", *)
(* "Classificação via IA"), model=settings.GROQ_MODEL, strategy=...).      *)
(* `coerce` is whether the installed pydantic turns a JSON number into a   *)
(* str (v1) or rejects it (v2).                                            *)
BuildLlmResponse(st, category_enum, reasoning, coerce) ==
    LET make(text_) == Returned([ category  |-> category_enum,
                                  reasoning |-> text_,
                                  model     |-> st.GROQ_MODEL,
                                  strategy  |-> "LLM (Groq)" ])
    IN  CASE reasoning.kind = "missing" -> make(<<"Classificação via IA">>)
          [] reasoning.kind = "string"  -> make(reasoning.value)
          [] reasoning.kind = "number"  ->
                IF coerce THEN make(<<ToString(reasoning.value)>>)
                ELSE Raised("ValidationError")
          [] OTHER -> Raised("ValidationError")

(* content = json.loads(...) onwards *)
ParseContent(st, content, coerce) ==
    CASE content.type = "null"  -> Raised("TypeError")
      [] content.type = "text"  -> Raised("JSONDecodeError")
      [] content.type = "array" -> Raised("AttributeError")
      [] OTHER ->
            LET cat == content.category
            IN  CASE cat.kind = "missing" ->
                        BuildLlmResponse(st, CategoryOf(OUTROS), content.reasoning, coerce)
                  [] cat.kind = "string" ->
                        BuildLlmResponse(st, CategoryOf(cat.value), content.reasoning, coerce)
                  [] OTHER -> Raised("AttributeError")

CallGroqLlm(st, outcome, coerce) ==
    IF outcome.kind = "raise" THEN Raised(outcome.exc)
    ELSE IF RaiseForStatus(outcome.status_code) THEN RaisedStatus(outcome.status_code)
    ELSE LET body == outcome.body
         IN  CASE ~body.json                    -> Raised("JSONDecodeError")
               [] body.shape = "no choices"     -> Raised("KeyError")
               [] body.shape = "empty choices"  -> Raised("IndexError")
               [] body.shape = "no content"     -> Raised("KeyError")
               [] OTHER -> ParseContent(st, body.content, coerce)

----------------------------------------------------------------------------
(* classifier.py: Classifier.classify                                      *)

NO_KEY_REASON ==
    <<"API Key do Groq não configurada. Fallback com heurística local ativado.">>
HttpErrorReason(status_code) == <<"Erro HTTP na IA (", ToString(status_code), ").">>
UNAVAILABLE_REASON == <<"Indisponibilidade momentânea da IA.">>

(* Variant: only a missing attribute counts as no credential. *)
NoApiKeyIsMissing(st) == "GROQ_API_KEY" \notin DOMAIN st

(* if not settings.GROQ_API_KEY *)
NoApiKey(st) == st.GROQ_API_KEY = ""

(* _call_groq_llm up to `await client.post(...)`: the request it sends.    *)
RenderPrompt(tpl) ==
    [i \in 1..Len(tpl) |-> IF tpl[i] = "{categories}" THEN "Processual, Financeiro, Suporte Técnico, Comercial, Administrativo, Outros" ELSE tpl[i]]

GroqRequest(st, tpl, t) ==
    [ url           |-> st.GROQ_URL,
      authorization |-> <<"Bearer ", st.GROQ_API_KEY>>,
      model         |-> st.GROQ_MODEL,
      system        |-> RenderPrompt(tpl),
      user          |-> t ]

(* Variants of the except clauses: the generic clause placed first; only    *)
(* httpx errors caught; only value errors caught.                          *)
CatchesStatusErrorShadowed(e) ==
    IsInstance(e, "HTTPStatusError") /\ ~IsInstance(e, "Exception")
CatchesHttpxOnly(e) == IsInstance(e, "HTTPError")
CatchesValueErrorOnly(e) == IsInstance(e, "ValueError")

(* except httpx.HTTPStatusError *)
CatchesStatusError(e) == IsInstance(e, "HTTPStatusError")
(* except Exception *)
CatchesException(e) == IsInstance(e, "Exception")

(* Variant: the remote result is not returned and the heuristic runs after  *)
(* the try statement in every case.                                        *)
ClassifyHandleFallsThrough(kw, t, call) ==
    [raised |-> FALSE, heuristic |-> 1,
     value |-> HeuristicClassify(kw, t, UNAVAILABLE_REASON)]

(* The try statement of classify, applied to how _call_groq_llm ended.     *)
(* heuristic: the number of _heuristic_classify calls made on the way.     *)
ClassifyHandle(kw, t, call) ==
    IF ~call.raised
    THEN [raised |-> FALSE, value |-> call.value, heuristic |-> 0]
    ELSE IF CatchesStatusError(call.exc)
    THEN [raised |-> FALSE, heuristic |-> 1,
          value |-> HeuristicClassify(kw, t, HttpErrorReason(call.exc.status_code))]
    ELSE IF CatchesException(call.exc)
    THEN [raised |-> FALSE, heuristic |-> 1,
          value |-> HeuristicClassify(kw, t, UNAVAILABLE_REASON)]
    ELSE [raised |-> TRUE, exc |-> call.exc, heuristic |-> 0]

----------------------------------------------------------------------------
(* main.py: POST /classify                                                 *)

(* Variant: the upper limit is exclusive. *)
ValidRequestExclusive(t) == MIN_LENGTH <= Len(t) /\ Len(t) < MAX_LENGTH

(* ClassificationRequest: text has min_length=3, max_length=2000 *)
ValidRequest(t) == MIN_LENGTH <= Len(t) /\ Len(t) <= MAX_LENGTH

(* if not request.text.strip() *)
BlankText(t) == Strip(t) = <<>>

UNPROCESSABLE == [status_code |-> 422, detail |-> "validation error"]
BAD_REQUEST ==
    [status_code |-> 400, detail |-> "O texto da mensagem não pode estar vazio."]
SERVER_ERROR ==
    [status_code |-> 500, detail |-> "Erro interno no servidor de classificação."]
Ok(body) == [status_code |-> 200, body |-> body]

(* try: result = await classifier.classify(...) ... except Exception *)
EndpointResponse(ret) ==
    IF ~ret.raised THEN Ok(ret.value) ELSE SERVER_ERROR

NONE == [none |-> TRUE]

Finish(r, call, ret) ==
    /\ pc' = [pc EXCEPT ![r] = "done"]
    /\ llm' = [llm EXCEPT ![r] = call]
    /\ heuristicRuns' = [heuristicRuns EXCEPT ![r] = @ + ret.heuristic]
    /\ http' = [http EXCEPT ![r] = EndpointResponse(ret)]

(* Variant: the text is kept on the shared Classifier instance, so the      *)
(* latest request's text is the text of every request.                     *)
ClassifyTextShared(r, t) ==
    /\ pc[r] = "idle"
    /\ text' = [q \in DOMAIN text |-> t]
    /\ UNCHANGED <<settings, keywords, promptTemplate, pydanticCoerces, remote>>
    /\ IF ~(MIN_LENGTH <= Len(t) /\ Len(t) <= MAX_LENGTH)
       THEN /\ pc' = [pc EXCEPT ![r] = "done"]
            /\ http' = [http EXCEPT ![r] = UNPROCESSABLE]
            /\ UNCHANGED <<llm, remoteCalls, heuristicRuns, sent>>
       ELSE IF BlankText(t)
       THEN /\ pc' = [pc EXCEPT ![r] = "done"]
            /\ http' = [http EXCEPT ![r] = BAD_REQUEST]
            /\ UNCHANGED <<llm, remoteCalls, heuristicRuns, sent>>
       ELSE IF settings.GROQ_API_KEY = ""
       THEN /\ Finish(r, NONE,
                      [raised |-> FALSE, heuristic |-> 1,
                       value |-> HeuristicClassify(keywords, t, NO_KEY_REASON)])
            /\ UNCHANGED <<remoteCalls, sent>>
       ELSE /\ pc' = [pc EXCEPT ![r] = "awaiting"]
            /\ sent' = [sent EXCEPT ![r] = GroqRequest(settings, promptTemplate, t)]
            /\ remoteCalls' = [remoteCalls EXCEPT ![r] = @ + 1]
            /\ UNCHANGED <<llm, heuristicRuns, http>>

(* A request with text t arrives: validation, the blank check, and         *)
(* classify up to its one suspension point, `await client.post(...)`.      *)
ClassifyText(r, t) ==
    /\ pc[r] = "idle"
    /\ text' = [text EXCEPT ![r] = t]
    /\ UNCHANGED <<settings, keywords, promptTemplate, pydanticCoerces, remote>>
    /\ IF ~ValidRequest(t)
       THEN /\ pc' = [pc EXCEPT ![r] = "done"]
            /\ http' = [http EXCEPT ![r] = UNPROCESSABLE]
            /\ UNCHANGED <<llm, remoteCalls, heuristicRuns, sent>>
       ELSE IF BlankText(t)
       THEN /\ pc' = [pc EXCEPT ![r] = "done"]
            /\ http' = [http EXCEPT ![r] = BAD_REQUEST]
            /\ UNCHANGED <<llm, remoteCalls, heuristicRuns, sent>>
       ELSE IF NoApiKey(settings)
       THEN /\ Finish(r, NONE,
                      [raised |-> FALSE, heuristic |-> 1,
                       value |-> HeuristicClassify(keywords, t, NO_KEY_REASON)])
            /\ UNCHANGED <<remoteCalls, sent>>
       ELSE /\ pc' = [pc EXCEPT ![r] = "awaiting"]
            /\ sent' = [sent EXCEPT ![r] = GroqRequest(settings, promptTemplate, t)]
            /\ remoteCalls' = [remoteCalls EXCEPT ![r] = @ + 1]
            /\ UNCHANGED <<llm, heuristicRuns, http>>

(* `await client.post(...)` completes with outcome o: the rest of          *)
(* _call_groq_llm, the try statement of classify, and the endpoint.        *)
RemoteReturns(r, o) ==
    /\ pc[r] = "awaiting"
    /\ remote' = [remote EXCEPT ![r] = o]
    /\ LET call == CallGroqLlm(settings, o, pydanticCoerces)
       IN  Finish(r, call, ClassifyHandle(keywords, text[r], call))
    /\ UNCHANGED <<settings, keywords, promptTemplate, pydanticCoerces, text,
                   remoteCalls, sent>>

(* _heuristic_classify applied to the text of r with the given reason. *)
ApplyHeuristic(r, reason) ==
    /\ pc[r] = "accepted"
    /\ Finish(r, NONE, [raised |-> FALSE, heuristic |-> 1,
                        value |-> HeuristicClassify(keywords, text[r], reason)])
    /\ UNCHANGED <<settings, keywords, promptTemplate, pydanticCoerces, text,
                   remote, remoteCalls, sent>>

----------------------------------------------------------------------------
(* Inputs.                                                                 *)

(* x repeated up to length n after t *)
PadTo(t, n) == [i \in 1..n |-> IF i <= Len(t) THEN t[i] ELSE "x"]

ApiTexts ==
    {
      <<>>,   \* ""
      <<"a","b">>,   \* "ab"
      <<" "," "," ">>,   \* "   "
      <<"b","o","m"," ","d","i","a">>,   \* "bom dia"
      <<"b","o","l","e","t","o"," ","v","e","n","c","i","d","o">>,   \* "boleto vencido"
      <<"Q","u","a","l"," ","o"," ","P","R","A","Z","O"," ","d","o"," ","r","e","c","u","r","s","o","?">>,   \* "Qual o PRAZO do recurso?"
      <<"R","e","u","n","i","ã","o"," ","C","o","m","e","r","c","i","a","l">>    \* "Reunião Comercial"
    }

LimitTexts ==
    { <<"a","b","c">>, <<" ","\t","\n"," ">>, <<" ","o","i"," ">>,
      PadTo(<<"p","r","a","z","o"," ">>, MAX_LENGTH),
      PadTo(<<"p","r","a","z","o"," ">>, MAX_LENGTH + 1) }

Fragments ==
    <<
      <<"b","o","l","e","t","o">>,   \* "boleto"
      <<"P","A","G","A","M","E","N","T","O">>,   \* "PAGAMENTO"
      <<"p","r","a","z","o">>,   \* "prazo"
      <<"r","e","c","u","r","s","o">>,   \* "recurso"
      <<"o","r","ç","a","m","e","n","t","o">>,   \* "orçamento"
      <<"R","e","u","n","i","ã","o"," ","C","o","m","e","r","c","i","a","l">>,   \* "Reunião Comercial"
      <<"r","e","c","u","p","e","r","a","r"," ","s","e","n","h","a">>,   \* "recuperar senha"
      <<"b","o","m"," ","d","i","a">>,   \* "bom dia"
      <<" ">>,   \* " "
      <<"j","u","i","z","a","d","o">>,   \* "juizado"
      <<"a","g","e","n","d","a","r"," ","s","a","l","a">>,   \* "agendar sala"
      <<"C","L","I","E","N","T","E"," ","n","o","v","o">>,   \* "CLIENTE novo"
      <<"e","r","r","o">>    \* "erro"
    >>

RECURSIVE FragmentTexts(_)
FragmentTexts(n) ==
    IF n = 0 THEN {<<>>}
    ELSE LET shorter == FragmentTexts(n - 1)
         IN  shorter \cup {s \o Fragments[i] : s \in shorter, i \in 1..Len(Fragments)}

HeuristicTexts == FragmentTexts(MaxFragments)

Reasons == {NO_KEY_REASON, HttpErrorReason(429), UNAVAILABLE_REASON}

ConcTexts ==
    {
      <<"b","o","m"," ","d","i","a">>,   \* "bom dia"
      <<"b","o","l","e","t","o">>,   \* "boleto"
      <<"r","e","c","u","r","s","o">>    \* "recurso"
    }

ApiOutcomes ==
    { [kind |-> "raise", exc |-> "ReadTimeout"],
      [kind |-> "raise", exc |-> "ConnectError"],
      [kind |-> "response", status_code |-> 429, body |-> [json |-> FALSE, shape |-> "html"]],
      [kind |-> "response", status_code |-> 500, body |-> [json |-> FALSE, shape |-> "html"]],
      [kind |-> "response", status_code |-> 200, body |-> SampleCompletion],
      [kind |-> "response", status_code |-> 200, body |-> [json |-> FALSE, shape |-> "html"]],
      [kind |-> "response", status_code |-> 200,
       body |-> [json |-> TRUE, shape |-> "completion",
                 content |-> [type |-> "object", category |-> [kind |-> "null"],
                              reasoning |-> [kind |-> "number", value |-> 7]]]] }

ConcOutcomes ==
    { [kind |-> "raise", exc |-> "ReadTimeout"],
      [kind |-> "response", status_code |-> 429, body |-> [json |-> FALSE, shape |-> "html"]],
      [kind |-> "response", status_code |-> 200, body |-> SampleCompletion],
      [kind |-> "response", status_code |-> 200, body |-> [json |-> TRUE, shape |-> "no choices"]] }

----------------------------------------------------------------------------
(* Specifications.                                                         *)

InitWith(n, keys, texts, start) ==
    /\ settings \in {SettingsOf(k) : k \in keys}
    /\ keywords = KeywordKeys
    /\ promptTemplate = SYSTEM_PROMPT_TEMPLATE
    /\ pydanticCoerces \in BOOLEAN
    /\ pc = [r \in 1..n |-> start]
    /\ text \in [1..n -> texts]
    /\ remote = [r \in 1..n |-> NONE]
    /\ sent = [r \in 1..n |-> NONE]
    /\ llm = [r \in 1..n |-> NONE]
    /\ remoteCalls = [r \in 1..n |-> 0]
    /\ heuristicRuns = [r \in 1..n |-> 0]
    /\ http = [r \in 1..n |-> NONE]

(* One request through POST /classify, every remote outcome. *)
Init == InitWith(1, ApiKeys, {<<>>}, "idle")

Arrive == \E r \in DOMAIN pc : \E t \in ApiTexts : ClassifyText(r, t)
Respond == \E r \in DOMAIN pc : \E o \in Outcomes : RemoteReturns(r, o)

Next == Arrive \/ Respond

Spec == Init /\ [][Next]_vars

(* One request through POST /classify, texts at the limits of validation. *)
InitApi == InitWith(1, ApiKeys, {<<>>}, "idle")

ArriveApi == \E r \in DOMAIN pc : \E t \in ApiTexts \cup LimitTexts : ClassifyText(r, t)
RespondApi == \E r \in DOMAIN pc : \E o \in ApiOutcomes : RemoteReturns(r, o)

NextApi == ArriveApi \/ RespondApi

SpecApi == InitApi /\ [][NextApi]_vars

(* _heuristic_classify as a function of its text and reason. *)
InitHeuristic == InitWith(1, {""}, HeuristicTexts, "accepted")

Heuristic == \E r \in DOMAIN pc : \E reason \in Reasons : ApplyHeuristic(r, reason)

NextHeuristic == Heuristic

SpecHeuristic == InitHeuristic /\ [][NextHeuristic]_vars

(* NumRequests requests in flight at once. *)
InitConc == InitWith(NumRequests, ApiKeys, {<<>>}, "idle")

ArriveConc == \E r \in DOMAIN pc : \E t \in ConcTexts : ClassifyText(r, t)
RespondConc == \E r \in DOMAIN pc : \E o \in ConcOutcomes : RemoteReturns(r, o)

NextConc == ArriveConc \/ RespondConc

SpecConc == InitConc /\ [][NextConc]_vars

----------------------------------------------------------------------------
(* Properties.                                                             *)

Pieces(s) == {s[i] : i \in 1..Len(s)}

(* Request r ended with a ClassificationResponse. *)
Answered(r) == pc[r] = "done" /\ http[r].status_code = 200

(* Request r made its remote call and the call has completed. *)
RemoteDone(r) == pc[r] = "done" /\ remote[r] # NONE

IsHeuristicAnswer(r) ==
    /\ Answered(r)
    /\ http[r].body.strategy = "Fallback-Heuristic"
    /\ http[r].body.model = "Keywords-Heuristic"

(* The completion content of a 2xx response, when the body has one. *)
HasContent(o) ==
    /\ o.kind = "response"
    /\ o.status_code \in 200..299
    /\ o.body.json
    /\ o.body.shape = "completion"

(* The failures of the remote call that the spec's taxonomy names. *)
TransportFailure(o) == o.kind = "raise"
StatusFailure(o) == o.kind = "response" /\ o.status_code \notin 200..299
MalformedPayload(o) ==
    /\ o.kind = "response"
    /\ o.status_code \in 200..299
    /\ \/ ~HasContent(o)
       \/ o.body.content.type # "object"

(* C1: with a credential configured, every failure of the remote call      *)
(* (timeout, transport fault, non-2xx status, malformed payload, any       *)
(* exception raised inside the client) ends in a heuristic response with   *)
(* strategy "Fallback-Heuristic"; none reaches the caller of classify.     *)
C1_FailuresCaught ==
    \A r \in DOMAIN pc :
        ( /\ RemoteDone(r)
          /\ \/ TransportFailure(remote[r])
             \/ StatusFailure(remote[r])
             \/ MalformedPayload(remote[r])
             \/ llm[r].raised )
        => /\ llm[r].raised
           /\ IsHeuristicAnswer(r)

C1_Witness ==
    \E r \in DOMAIN pc :
        /\ RemoteDone(r)
        /\ remote[r].kind = "response"
        /\ remote[r].status_code = 200
        /\ remote[r].body.shape = "no choices"
        /\ IsHeuristicAnswer(r)

(* C2: with no credential configured, classify makes no network call for   *)
(* any text and returns the heuristic result, whose reasoning starts with  *)
(* the 'API key not configured' reason.                                    *)
C2_NoKeyNoCall ==
    settings.GROQ_API_KEY = "" =>
        \A r \in DOMAIN pc :
            /\ remoteCalls[r] = 0
            /\ sent[r] = NONE
            /\ pc[r] # "awaiting"
            /\ (pc[r] = "done" /\ Len(text[r]) \in 3..2000 /\ Strip(text[r]) # <<>>)
                  => /\ IsHeuristicAnswer(r)
                     /\ SubSeq(http[r].body.reasoning, 1, Len(NO_KEY_REASON)) = NO_KEY_REASON

C2_Witness ==
    \E r \in DOMAIN pc :
        /\ settings.GROQ_API_KEY = ""
        /\ IsHeuristicAnswer(r)
        /\ remoteCalls[r] = 0

(* C3: a call of classify makes at most one remote request; the heuristic  *)
(* runs exactly once when the credential is absent or the attempt failed,  *)
(* and not at all when the attempt succeeded, whose result is returned     *)
(* unchanged.                                                              *)
C3_OnePass ==
    \A r \in DOMAIN pc :
        /\ remoteCalls[r] <= 1
        /\ heuristicRuns[r] <= 1
        /\ pc[r] = "awaiting" => (remoteCalls[r] = 1 /\ heuristicRuns[r] = 0)
        /\ Answered(r) =>
              IF settings.GROQ_API_KEY = ""
              THEN remoteCalls[r] = 0 /\ heuristicRuns[r] = 1 /\ IsHeuristicAnswer(r)
              ELSE /\ remoteCalls[r] = 1
                   /\ llm[r].raised => (heuristicRuns[r] = 1 /\ IsHeuristicAnswer(r))
                   /\ ~llm[r].raised => (heuristicRuns[r] = 0 /\ http[r].body = llm[r].value)

C3_Witness ==
    \E r \in DOMAIN pc :
        /\ Answered(r)
        /\ remoteCalls[r] = 1
        /\ ~llm[r].raised
        /\ heuristicRuns[r] = 0
        /\ http[r].body.strategy = "LLM (Groq)"

(* C4: for every non-success HTTP status code c of the remote service the  *)
(* result is heuristic and its reasoning contains c, not the 'momentary    *)
(* unavailability' reason.                                                 *)
C4_StatusCited ==
    \A r \in DOMAIN pc :
        (RemoteDone(r) /\ StatusFailure(remote[r])) =>
            /\ IsHeuristicAnswer(r)
            /\ ToString(remote[r].status_code) \in Pieces(http[r].body.reasoning)
            /\ Pieces(UNAVAILABLE_REASON) \cap Pieces(http[r].body.reasoning) = {}

C4_Witness ==
    \E r \in DOMAIN pc :
        /\ RemoteDone(r)
        /\ remote[r].kind = "response"
        /\ remote[r].status_code = 429
        /\ "429" \in Pieces(http[r].body.reasoning)

(* C5: every remote failure that is not a non-success HTTP status          *)
(* (timeout, transport fault, unparseable 2xx payload, any other           *)
(* exception) gives a heuristic result citing momentary unavailability,    *)
(* the same reason for all of them.                                        *)
C5_UnavailableCited ==
    \A r \in DOMAIN pc :
        ( /\ RemoteDone(r)
          /\ ~StatusFailure(remote[r])
          /\ \/ TransportFailure(remote[r])
             \/ MalformedPayload(remote[r])
             \/ llm[r].raised )
        => /\ IsHeuristicAnswer(r)
           /\ SubSeq(http[r].body.reasoning, 1, Len(UNAVAILABLE_REASON)) = UNAVAILABLE_REASON
           /\ \A p \in Pieces(http[r].body.reasoning) : p # "Erro HTTP na IA ("

C5_Witness ==
    \E r \in DOMAIN pc :
        /\ RemoteDone(r)
        /\ remote[r].kind = "raise"
        /\ remote[r].exc = "ReadTimeout"
        /\ IsHeuristicAnswer(r)
        /\ http[r].body.reasoning[1] = "Indisponibilidade momentânea da IA."

(* The five Knowledge Base categories in iteration order, and the six labels. *)
KnowledgeOrder == <<FINANCEIRO, PROCESSUAL, SUPORTE, COMERCIAL, ADMINISTRATIVO>>
Labels == {PROCESSUAL, FINANCEIRO, SUPORTE, COMERCIAL, ADMINISTRATIVO, OUTROS}

(* The trigger terms of Knowledge Base category c. *)
TermsOf(c) ==
    UNION {Pieces(KEYWORDS[i].terms) : i \in {i \in 1..Len(KEYWORDS) : KEYWORDS[i].category = c}}

(* The score of category c for text t: its terms present in lower-cased t. *)
Score(c, t) == Cardinality({term \in TermsOf(c) : Contains(Lower(t), Spell[term])})

(* C6: the heuristic returns Outros exactly when no trigger term of any of *)
(* the five categories is a substring of the lower-cased text (the empty   *)
(* text included); otherwise it returns one of the five categories.        *)
C6_OutrosIffNoMatch ==
    \A r \in DOMAIN pc :
        Answered(r) =>
            LET none == \A i \in 1..5 : Score(KnowledgeOrder[i], text[r]) = 0
            IN  /\ (http[r].body.category = OUTROS) <=> none
                /\ ~none => http[r].body.category \in Pieces(KnowledgeOrder)

C6_Witness ==
    \E r \in DOMAIN pc :
        /\ Answered(r)
        /\ text[r] = <<"P","A","G","A","M","E","N","T","O">>
        /\ http[r].body.category = FINANCEIRO

(* C7: with some nonzero score, the heuristic returns the category that is *)
(* earliest in the order Financeiro, Processual, Suporte Técnico,          *)
(* Comercial, Administrativo among those with the maximal score.           *)
C7_EarliestMaximum ==
    \A r \in DOMAIN pc :
        (Answered(r) /\ \E i \in 1..5 : Score(KnowledgeOrder[i], text[r]) > 0) =>
            \E i \in 1..5 :
                /\ http[r].body.category = KnowledgeOrder[i]
                /\ \A j \in 1..5 :
                      Score(KnowledgeOrder[j], text[r]) <= Score(KnowledgeOrder[i], text[r])
                /\ \A j \in 1..(i - 1) :
                      Score(KnowledgeOrder[j], text[r]) < Score(KnowledgeOrder[i], text[r])

C7_Witness ==
    \E r \in DOMAIN pc :
        /\ Answered(r)
        /\ http[r].body.category = PROCESSUAL
        /\ Score(PROCESSUAL, text[r]) = 2
        /\ Score(ADMINISTRATIVO, text[r]) = 2
        /\ Score(FINANCEIRO, text[r]) = 0

(* The label that equals value v ignoring letter case, Outros if none.     *)
LabelFor(v) ==
    IF \E l \in Labels : Lower(Spell[l]) = Lower(Spell[v])
    THEN CHOOSE l \in Labels : Lower(Spell[l]) = Lower(Spell[v])
    ELSE OUTROS

C8_Expected(content) ==
    IF content.type = "object" /\ content.category.kind = "string"
    THEN LabelFor(content.category.value)
    ELSE OUTROS

C8_Holds(r) ==
    /\ Answered(r)
    /\ http[r].body.category = C8_Expected(remote[r].body.content)
    /\ http[r].body.strategy = "LLM (Groq)"
    /\ heuristicRuns[r] = 0

(* C8 as stated: for every successful response whose completion content    *)
(* parses as JSON, the category is the label matching its category value   *)
(* ignoring case, Outros in every other case, with strategy "LLM (Groq)"   *)
(* and no heuristic fallback.                                              *)
C8_Original ==
    \A r \in DOMAIN pc :
        ( /\ RemoteDone(r)
          /\ HasContent(remote[r])
          /\ remote[r].body.content.type \in {"array", "object"} )
        => C8_Holds(r)

(* Content that parses as a JSON object the code can use: the category     *)
(* value is a string or absent, the reasoning value a string or absent.    *)
WellTyped(content) ==
    /\ content.type = "object"
    /\ content.category.kind \in {"string", "missing"}
    /\ content.reasoning.kind \in {"string", "missing"}

(* Content that parses as JSON and that the code cannot use: no object, a  *)
(* null or numeric category, a null reasoning.                             *)
IllTyped(content) ==
    \/ content.type = "array"
    \/ /\ content.type = "object"
       /\ \/ content.category.kind \in {"null", "number"}
          \/ content.reasoning.kind = "null"

(* C8 amended: for content that parses as a JSON object whose category     *)
(* value is a string or absent and whose reasoning value is a string or    *)
(* absent, the category is the label matching the category value ignoring  *)
(* case, Outros otherwise, with strategy "LLM (Groq)" and no fallback;     *)
(* content that is no object, or has a null or numeric category or a null  *)
(* reasoning, triggers the heuristic fallback.                             *)
C8_WellTypedContent ==
    \A r \in DOMAIN pc :
        (RemoteDone(r) /\ HasContent(remote[r])) =>
            /\ WellTyped(remote[r].body.content) => C8_Holds(r)
            /\ IllTyped(remote[r].body.content) =>
                  (IsHeuristicAnswer(r) /\ heuristicRuns[r] = 1)

C8_Witness ==
    \E r \in DOMAIN pc :
        /\ RemoteDone(r)
        /\ HasContent(remote[r])
        /\ remote[r].body.content.type = "object"
        /\ remote[r].body.content.category =
              [kind |-> "string", value |-> "financeiro"]
        /\ http[r].body.category = FINANCEIRO
        /\ http[r].body.strategy = "LLM (Groq)"

IsClassificationResponse(h) ==
    /\ h.status_code = 200
    /\ DOMAIN h.body = {"category", "reasoning", "model", "strategy"}
    /\ h.body.category \in Labels

(* C9 as stated: every request whose text has between 3 and 2000           *)
(* characters succeeds with a ClassificationResponse.                      *)
C9_Original ==
    \A r \in DOMAIN pc :
        (pc[r] = "done" /\ Len(text[r]) >= 3 /\ Len(text[r]) <= 2000) =>
            IsClassificationResponse(http[r])

(* C9 amended: every request whose text has between 3 and 2000 characters  *)
(* and does not consist of whitespace only succeeds with a                 *)
(* ClassificationResponse, whatever the configuration and remote outcome;  *)
(* a text of that length that is all whitespace is answered with 400.      *)
C9_NonBlankSucceeds ==
    \A r \in DOMAIN pc :
        (pc[r] = "done" /\ Len(text[r]) >= 3 /\ Len(text[r]) <= 2000) =>
            IF \E i \in 1..Len(text[r]) : text[r][i] \notin {" ", "\t", "\n"}
            THEN IsClassificationResponse(http[r])
            ELSE http[r].status_code = 400

C9_Witness ==
    \E r \in DOMAIN pc :
        /\ pc[r] = "done"
        /\ Len(text[r]) = 2000
        /\ remote[r] # NONE
        /\ IsClassificationResponse(http[r])

(* What request r must answer, from its own text, its own remote outcome   *)
(* and the startup values of the shared objects.                           *)
OwnAnswer(r) ==
    LET st == SettingsOf(settings.GROQ_API_KEY)
    IN  IF st.GROQ_API_KEY = ""
        THEN HeuristicClassify(KeywordKeys, text[r], NO_KEY_REASON)
        ELSE ClassifyHandle(KeywordKeys, text[r],
                            CallGroqLlm(st, remote[r], pydanticCoerces)).value

OwnResults ==
    /\ keywords = KeywordKeys
    /\ promptTemplate = SYSTEM_PROMPT_TEMPLATE
    /\ settings = SettingsOf(settings.GROQ_API_KEY)
    /\ \A r \in DOMAIN pc :
          /\ pc[r] = "awaiting" =>
                sent[r] = GroqRequest(SettingsOf(settings.GROQ_API_KEY),
                                      SYSTEM_PROMPT_TEMPLATE, text[r])
          /\ Answered(r) => http[r].body = OwnAnswer(r)

(* C10: with requests interleaved at the remote call, each request's       *)
(* result is determined by its own text and its own remote outcome, and    *)
(* the shared Knowledge Base, prompt template and settings keep their      *)
(* startup values.                                                         *)
C10_Independent ==
    /\ []OwnResults
    /\ [][ /\ settings' = settings
           /\ keywords' = keywords
           /\ promptTemplate' = promptTemplate ]_vars

C10_Witness ==
    /\ pc[1] = "done"
    /\ pc[2] = "done"
    /\ remote[1] # NONE
    /\ remote[2] # NONE
    /\ text[1] # text[2]
    /\ remote[1] = remote[2]
    /\ http[1].body # http[2].body
    /\ http[1].body.strategy = "Fallback-Heuristic"

(* The remote path produced the answer of r: its call completed without a  *)
(* named failure and no heuristic ran.                                     *)
RemoteProduced(r) ==
    /\ RemoteDone(r)
    /\ ~TransportFailure(remote[r])
    /\ ~StatusFailure(remote[r])
    /\ ~MalformedPayload(remote[r])
    /\ ~llm[r].raised
    /\ heuristicRuns[r] = 0

(* The heuristic produced the answer of r: it ran once, the credential     *)
(* being absent or the remote call having failed.                          *)
HeuristicProduced(r) ==
    /\ heuristicRuns[r] = 1
    /\ \/ settings.GROQ_API_KEY = "" /\ remote[r] = NONE
       \/ RemoteDone(r) /\ llm[r].raised

====
